---- MODULE Spec2Model ----
(***************************************************************************)
(* Model of the research / validate / refine workflow of                   *)
(* app/orchestrator/workflow.py (ResearchWorkflow), with the parts of the  *)
(* research and validator agents that decide what the workflow stores.     *)
(*                                                                         *)
(* One run is modelled.  The graph built by _build_workflow is the program *)
(* counter pc: every node is one action, and the conditional edge after    *)
(* "validate" (_should_refine) is evaluated in the step of the validate    *)
(* node, as the graph library does.  Scores and confidences are kept in    *)
(* hundredths (0.7 is 70).                                                  *)
(***************************************************************************)
EXTENDS Integers, Sequences, FiniteSets, TLC

\* ---------------------------------------------------------------- bounds
\* Largest max_iterations a caller passes explicitly.
MaxIterBound == 2

\* settings.max_iterations, used when run() gets max_iterations = None.
DefaultMaxIterations == 3

\* Threshold of ValidatorAgent.process / _simple_fallback_validation (0.7).
SufficiencyThreshold == 70

VARIABLES
    pc,          \* node of the graph about to run, or the caller's position
    caller,      \* "none" | "cli" | "direct": who invoked run()
    rfp_kind,    \* "ok" | "missing" | "unsupported": the file at rfp_path
    state,       \* the WorkflowState dict
    calls,       \* number of calls of each agent's process()
    trace,       \* nodes executed so far, in order
    fault_at,    \* 0, or the length of trace when the first stage fault was caught
    artifacts,   \* number of times each artifact file has been written
    summary,     \* content of summary.json
    research_context,  \* context argument of the research_agent.process call of
                       \* the step just taken (empty when it made none)
    call,        \* a single call of an agent or tool method: its name and inputs
    result,      \* what that call returned or raised
    jobs,        \* two runs side by side: position and queries of each
    last_queries_used,  \* _last_queries_used of each workflow's research agent
    chunker      \* one call of _chunk_text: its inputs and loop variables

\* Variables of the single-call and of the two-run specification; the
\* single run leaves them alone.
callVars == <<call, result>>
concurrentVars == <<jobs, last_queries_used>>
chunkVars == <<chunker>>
other == <<callVars, concurrentVars, chunkVars>>

vars == <<pc, caller, rfp_kind, state, calls, trace, fault_at, artifacts, summary,
          research_context, call, result, jobs, last_queries_used, chunker>>

\* ------------------------------------------------------- data of one run
EmptyFindings ==
    [present |-> FALSE, company_profile_name |-> "", extracted_requirements |-> <<>>,
     evidence |-> <<>>, mapped_insights |-> <<>>]

EmptyReport ==
    [present |-> FALSE, coverage_score |-> 0, gaps |-> <<>>, is_sufficient |-> FALSE]

EmptyOutline == [present |-> FALSE, sections |-> 0]

NoSummary ==
    [written |-> FALSE, iterations |-> 0, is_complete |-> FALSE, errors |-> <<>>,
     coverage_score |-> 0, requirements_count |-> 0, evidence_count |-> 0]

ArtifactNames ==
    {"inputs", "findings", "validation", "outline", "summary",
     "bid_research_package", "unified_bid_document", "comprehensive_result"}

\* WorkflowState as run() creates it.
InitialState(company_name, max_iterations) ==
    [company_name |-> company_name,
     max_iterations |-> max_iterations,
     current_iteration |-> 0,
     research_findings |-> EmptyFindings,
     validation_report |-> EmptyReport,
     bid_outline |-> EmptyOutline,
     bid_research_package_path |-> "",
     unified_bid_document_path |-> "",
     comprehensive_result_path |-> "",
     is_complete |-> FALSE,
     errors |-> <<>>]

\* An empty context dict, and the state of the single-call variables when no
\* single call is examined.
NoContext == [given |-> FALSE, additional_queries |-> <<>>]
NoCall == [fn |-> "none"]
NoResult == [done |-> FALSE]
NoJobs == <<>>
NoChunker == [pc |-> "idle"]

\* ------------------------------------------------------------- helpers
RECURSIVE SumConfidence(_)
SumConfidence(s) ==
    IF s = <<>> THEN 0 ELSE Head(s).confidence + SumConfidence(Tail(s))

RECURSIVE Flatten(_)
Flatten(seqs) ==
    IF seqs = <<>> THEN <<>> ELSE Head(seqs) \o Flatten(Tail(seqs))

\* ----------------------------------------------------- research agent
\* Requirements the extraction step can return (LLM or fallback path).
\* The text of a requirement is the sequence of its lower-case words.
Req1 == [id |-> "REQ-001", category |-> "features", priority |-> "critical",
         text |-> <<"platform", "must", "scale", "fast">>]
Req2 == [id |-> "REQ-002", category |-> "support", priority |-> "high",
         text |-> <<"helpdesk", "should", "answer", "calls", "daily">>]
RequirementLists == {<<>>, <<Req1>>, <<Req1, Req2>>}

Min(a, b) == IF a <= b THEN a ELSE b

\* s[:n]
Take(s, n) == SubSeq(s, 1, Min(n, Len(s)))

\* Evidence items the search step can keep (confidence > 0.3 each).
Ev1 == [source_url |-> "u1", snippet |-> {"platform"}, confidence |-> 80,
        tags |-> {"features", "search-result"}]
Ev2 == [source_url |-> "u2", snippet |-> {"helpdesk"}, confidence |-> 40,
        tags |-> {"support", "search-result"}]
Ev3 == [source_url |-> "u3", snippet |-> {}, confidence |-> 100,
        tags |-> {"features", "search-result"}]
EvidenceLists == {<<>>, <<Ev1>>, <<Ev2, Ev1>>, <<Ev3>>, <<Ev1, Ev3>>}

\* Variant: any word of the requirement text counts, not the first 3 only.
RelevantEvidence_AnyWord(req, evidence) ==
    {j \in 0..(Len(evidence) - 1) :
        \/ req.category \in evidence[j + 1].tags
        \/ \E i \in 1..Len(req.text) :
              req.text[i] \in evidence[j + 1].snippet}

\* Indices (0-based, as in the code) of the evidence relevant to req.
RelevantEvidence(req, evidence) ==
    {j \in 0..(Len(evidence) - 1) :
        \/ req.category \in evidence[j + 1].tags
        \* one of the first 3 words of the text occurs in the snippet
        \/ \E i \in 1..Len(Take(req.text, 3)) :
              req.text[i] \in evidence[j + 1].snippet}

RECURSIVE SortedSeq(_)
SortedSeq(S) ==
    IF S = {} THEN <<>>
    ELSE LET m == CHOOSE x \in S : \A y \in S : x <= y
         IN <<m>> \o SortedSeq(S \ {m})

RECURSIVE SumAt(_, _)
SumAt(evidence, idx) ==
    IF idx = <<>> THEN 0
    ELSE evidence[Head(idx) + 1].confidence + SumAt(evidence, Tail(idx))

RECURSIVE create_insights(_, _)
create_insights(requirements, evidence) ==
    IF requirements = <<>> THEN <<>>
    ELSE LET req == Head(requirements)
             rel == SortedSeq(RelevantEvidence(req, evidence))
             rest == create_insights(Tail(requirements), evidence)
         IN IF rel # <<>>
            THEN <<[requirement_id |-> req.id,
                    supporting_evidence_idx |-> rel,
                    \* mean confidence, rounded down to hundredths
                    confidence |-> SumAt(evidence, rel) \div Len(rel)]>> \o rest
            ELSE rest

\* Name in the company profile: the profile synthesis takes it from the
\* completion service's JSON, its fallback from the company_name argument.
ProfileNames(company_name) == {company_name, "Acme Ltd"}

\* Variant: the evidence list cut to its first item after the insights
\* were mapped.
research_process_CuttingEvidence(profile_name, requirements, evidence) ==
    [present |-> TRUE,
     company_profile_name |-> profile_name,
     extracted_requirements |-> requirements,
     evidence |-> Take(evidence, 1),
     mapped_insights |-> create_insights(requirements, evidence)]

\* ResearchAgent.process: the findings it returns for what the external
\* services delivered (profile name, requirements extracted, evidence kept).
research_process(profile_name, requirements, evidence) ==
    [present |-> TRUE,
     company_profile_name |-> profile_name,
     extracted_requirements |-> requirements,
     evidence |-> evidence,
     mapped_insights |-> create_insights(requirements, evidence)]

\* ---------------------------------------------------- validator agent
\* Replies of the completion service to the validation prompt.  A query is a
\* sequence of text fragments.
LlmQueries == {<<>>, << <<"q1">>, <<"q2">> >>}
ReplyScores == {0, 50, 70, 80, 150}
ValidatorReplies ==
    {[kind |-> k, validation_score |-> 0, additional_search_queries |-> <<>>] :
        k \in {"llm_error", "bad_json", "not_object"}}
    \cup
    {[kind |-> "object", validation_score |-> sc, additional_search_queries |-> q] :
        sc \in ReplyScores, q \in LlmQueries}

FallbackQueries(company_name) ==
    << <<company_name, "case studies and success stories">>,
       <<company_name, "technical capabilities and certifications">>,
       <<company_name, "relevant project experience">>,
       <<company_name, "competitive advantages and differentiators">>,
       <<company_name, "industry expertise and partnerships">> >>

Gap(queries) ==
    [requirement_id |-> "ADDITIONAL_RESEARCH", suggested_queries |-> queries]

\* ValidationReport(...): the model's bounds on coverage_score reject a score
\* outside [0, 1].
ValidationReportAccepts(score) == score >= 0 /\ score <= 100

\* Variant: no penalty when there is no evidence.
simple_fallback_validation_NoPenalty(findings) ==
    LET nreq == Len(findings.extracted_requirements)
        nev == Len(findings.evidence)
        covered == Cardinality({findings.mapped_insights[i].requirement_id :
                                    i \in 1..Len(findings.mapped_insights)})
        num == IF nreq = 0 THEN 0
               ELSE IF nev > 0 THEN covered * SumConfidence(findings.evidence)
               ELSE covered * 100
        den == IF nreq = 0 THEN 1
               ELSE IF nev > 0 THEN nreq * nev
               ELSE nreq
        low == num < SufficiencyThreshold * den
        additional_queries ==
            IF low THEN FallbackQueries(findings.company_profile_name) ELSE <<>>
        gaps == IF low /\ additional_queries # <<>>
                THEN <<Gap(additional_queries)>> ELSE <<>>
    IN IF num >= 0 /\ num <= 100 * den
       THEN [raised |-> FALSE,
             report |-> [present |-> TRUE,
                         coverage_score |-> num \div den,
                         gaps |-> gaps,
                         is_sufficient |-> ~low]]
       ELSE [raised |-> TRUE, report |-> EmptyReport]

\* ValidatorAgent._simple_fallback_validation.  The result is
\* [raised, report]; raised when the report's constructor rejects the score.
simple_fallback_validation(findings) ==
    LET nreq == Len(findings.extracted_requirements)
        nev == Len(findings.evidence)
        covered == Cardinality({findings.mapped_insights[i].requirement_id :
                                    i \in 1..Len(findings.mapped_insights)})
        \* score = num / den, in hundredths
        num == IF nreq = 0 THEN 0
               ELSE IF nev > 0 THEN covered * SumConfidence(findings.evidence)
               ELSE covered * 50
        den == IF nreq = 0 THEN 1
               ELSE IF nev > 0 THEN nreq * nev
               ELSE nreq
        low == num < SufficiencyThreshold * den
        additional_queries ==
            IF low THEN FallbackQueries(findings.company_profile_name) ELSE <<>>
        gaps == IF low /\ additional_queries # <<>>
                THEN <<Gap(additional_queries)>> ELSE <<>>
    IN IF num >= 0 /\ num <= 100 * den
       THEN [raised |-> FALSE,
             report |-> [present |-> TRUE,
                         coverage_score |-> num \div den,
                         gaps |-> gaps,
                         is_sufficient |-> ~low]]
       ELSE [raised |-> TRUE, report |-> EmptyReport]

\* Variant: a gap for the suggested queries of a sufficient report too.
validator_process_GapWhenSufficient(findings, reply) ==
    IF reply.kind = "llm_error" THEN
        \* self.llm.invoke is outside the try block
        [raised |-> TRUE, report |-> EmptyReport]
    ELSE IF reply.kind \in {"empty", "bad_json"} THEN
        \* json.JSONDecodeError is caught
        simple_fallback_validation(findings)
    ELSE IF reply.kind = "not_object" THEN
        \* validation_data.get on a list or a number: AttributeError, not caught
        [raised |-> TRUE, report |-> EmptyReport]
    ELSE
        \* validation_data.get(key, default) for an object without the keys
        LET validation_score == IF reply.kind = "object_missing_keys" THEN 0
                                ELSE reply.validation_score
            additional_queries == IF reply.kind = "object_missing_keys" THEN <<>>
                                  ELSE reply.additional_search_queries
            is_sufficient == validation_score >= SufficiencyThreshold
            gaps == IF additional_queries # <<>>
                    THEN <<Gap(additional_queries)>> ELSE <<>>
        IN IF ValidationReportAccepts(validation_score)
           THEN [raised |-> FALSE,
                 report |-> [present |-> TRUE,
                             coverage_score |-> validation_score,
                             gaps |-> gaps,
                             is_sufficient |-> is_sufficient]]
           ELSE \* pydantic's ValidationError is a ValueError: caught
                simple_fallback_validation(findings)

\* Variant: a score of exactly the threshold not sufficient.
validator_process_StrictThreshold(findings, reply) ==
    IF reply.kind = "llm_error" THEN
        \* self.llm.invoke is outside the try block
        [raised |-> TRUE, report |-> EmptyReport]
    ELSE IF reply.kind \in {"empty", "bad_json"} THEN
        \* json.JSONDecodeError is caught
        simple_fallback_validation(findings)
    ELSE IF reply.kind = "not_object" THEN
        \* validation_data.get on a list or a number: AttributeError, not caught
        [raised |-> TRUE, report |-> EmptyReport]
    ELSE
        \* validation_data.get(key, default) for an object without the keys
        LET validation_score == IF reply.kind = "object_missing_keys" THEN 0
                                ELSE reply.validation_score
            additional_queries == IF reply.kind = "object_missing_keys" THEN <<>>
                                  ELSE reply.additional_search_queries
            is_sufficient == validation_score > SufficiencyThreshold
            gaps == IF ~is_sufficient /\ additional_queries # <<>>
                    THEN <<Gap(additional_queries)>> ELSE <<>>
        IN IF ValidationReportAccepts(validation_score)
           THEN [raised |-> FALSE,
                 report |-> [present |-> TRUE,
                             coverage_score |-> validation_score,
                             gaps |-> gaps,
                             is_sufficient |-> is_sufficient]]
           ELSE \* pydantic's ValidationError is a ValueError: caught
                simple_fallback_validation(findings)

\* ValidatorAgent.process for one reply of the completion service.
validator_process(findings, reply) ==
    IF reply.kind = "llm_error" THEN
        \* self.llm.invoke is outside the try block
        [raised |-> TRUE, report |-> EmptyReport]
    ELSE IF reply.kind \in {"empty", "bad_json"} THEN
        \* json.JSONDecodeError is caught
        simple_fallback_validation(findings)
    ELSE IF reply.kind = "not_object" THEN
        \* validation_data.get on a list or a number: AttributeError, not caught
        [raised |-> TRUE, report |-> EmptyReport]
    ELSE
        \* validation_data.get(key, default) for an object without the keys
        LET validation_score == IF reply.kind = "object_missing_keys" THEN 0
                                ELSE reply.validation_score
            additional_queries == IF reply.kind = "object_missing_keys" THEN <<>>
                                  ELSE reply.additional_search_queries
            is_sufficient == validation_score >= SufficiencyThreshold
            gaps == IF ~is_sufficient /\ additional_queries # <<>>
                    THEN <<Gap(additional_queries)>> ELSE <<>>
        IN IF ValidationReportAccepts(validation_score)
           THEN [raised |-> FALSE,
                 report |-> [present |-> TRUE,
                             coverage_score |-> validation_score,
                             gaps |-> gaps,
                             is_sufficient |-> is_sufficient]]
           ELSE \* pydantic's ValidationError is a ValueError: caught
                simple_fallback_validation(findings)

\* ----------------------------------------------------------- web search
\* The provider search() selects: Tavily or SerpAPI when its key is set, the
\* scraping fallback otherwise.
SearchProviders == {"tavily", "serpapi", "fallback"}
\* Search results: the URL is the official company site, a .gov/.edu/.org
\* site or another one; the snippet is the set of its words; names_company
\* tells whether the company name occurs in the snippet.
ResultA == [url |-> "ua", url_kind |-> "company",
            snippet |-> {"platform", "must", "scale", "fast"},
            names_company |-> TRUE]
ResultB == [url |-> "ub", url_kind |-> "credible", snippet |-> {"answer"},
            names_company |-> FALSE]
ResultC == [url |-> "uc", url_kind |-> "other", snippet |-> {"helpdesk", "calls"},
            names_company |-> TRUE]
ResultD == [url |-> "ud", url_kind |-> "company", snippet |-> {},
            names_company |-> FALSE]
ResultE == [url |-> "ue", url_kind |-> "credible", snippet |-> {"platform", "must"},
            names_company |-> FALSE]
ResultLists == {<<>>, <<ResultA>>, <<ResultA, ResultC>>}
\* Outcome of one request to a provider: it fails (HTTP error, time-out), or
\* delivers results.
RequestOutcomes == {[fails |-> f, results |-> r] : f \in BOOLEAN, r \in ResultLists}

\* SearchTool._search_fallback: catches every exception and returns [].
search_fallback(scrape) == IF scrape.fails THEN <<>> ELSE scrape.results

\* SearchTool.search, for the outcome of the selected provider's request and
\* of a scraping request.  The result is [raised, results].
search(provider, primary, scrape) ==
    IF provider = "fallback"
    THEN [raised |-> FALSE, results |-> search_fallback(scrape)]
    ELSE IF ~primary.fails
    THEN [raised |-> FALSE, results |-> primary.results]
    ELSE \* the handler tests `results`, which was never assigned:
         \* UnboundLocalError leaves search()
         [raised |-> TRUE, results |-> <<>>]

\* ------------------------------------- research agent, call by call
\* Outcome of one call of the completion service: the call fails, or replies
\* with text that does not parse, or with the JSON asked for.
LlmOutcomes == {"error", "bad_json", "ok"}

\* ResearchAgent._extract_rfp_requirements: [raised, path].
extract_rfp_requirements(rfp, llm) ==
    IF rfp # "ok" THEN
        \* document_processor.process_document raises
        [raised |-> TRUE, path |-> "none"]
    ELSE IF llm = "error" THEN
        \* self.llm.invoke is outside the try block
        [raised |-> TRUE, path |-> "none"]
    ELSE IF llm = "ok" THEN [raised |-> FALSE, path |-> "primary"]
    ELSE [raised |-> FALSE, path |-> "fallback"]

\* ResearchAgent._research_company: one search per query, then the profile
\* synthesis.  The result is [raised, path, name].
research_company(company_name, n_queries, found, llm, llm_name) ==
    IF n_queries > 0 /\ found.raised THEN
        [raised |-> TRUE, path |-> "none", name |-> ""]
    ELSE IF llm = "error" THEN
        \* self.llm.invoke is outside the try block
        [raised |-> TRUE, path |-> "none", name |-> ""]
    ELSE IF llm = "ok" THEN
        [raised |-> FALSE, path |-> "primary", name |-> llm_name]
    ELSE [raised |-> FALSE, path |-> "fallback", name |-> company_name]

\* The keyword table of _categorize_requirement, in the order of its
\* if/elif chain.  A text is the set of the keywords that occur in its
\* lower-case form.
CategoryTable ==
    <<[category |-> "integration",
       keywords |-> {"integration", "api", "connect", "interface", "teams",
                     "sharepoint", "salesforce"}],
      [category |-> "support",
       keywords |-> {"support", "helpdesk", "service", "maintenance",
                     "training"}],
      [category |-> "roi",
       keywords |-> {"cost", "price", "roi", "budget", "savings",
                     "return on investment"}],
      [category |-> "licensing",
       keywords |-> {"license", "licensing", "permit", "agreement",
                     "user accounts"}],
      [category |-> "timeline",
       keywords |-> {"timeline", "schedule", "deadline", "time", "duration",
                     "implementation"}],
      [category |-> "presentation",
       keywords |-> {"presentation", "present", "demo", "demonstrate"}],
      [category |-> "evaluation",
       keywords |-> {"evaluation", "assess", "scoring", "criteria", "judge"}],
      [category |-> "implementation",
       keywords |-> {"implement", "deploy", "rollout", "go-live"}],
      [category |-> "users",
       keywords |-> {"users", "accounts", "permissions", "access",
                     "super user"}],
      [category |-> "capabilities",
       keywords |-> {"capability", "feature", "function", "ai-driven",
                     "web-based"}]>>

\* The chain of _categorize_requirement from its i-th branch on.
RECURSIVE categorize_from(_, _)
categorize_from(text, i) ==
    IF i > Len(CategoryTable) THEN "features"
    ELSE IF text \cap CategoryTable[i].keywords # {}
         THEN CategoryTable[i].category
         ELSE categorize_from(text, i + 1)

\* ResearchAgent._categorize_requirement
categorize_requirement(text) == categorize_from(text, 1)

CriticalKeywords ==
    {"must", "shall", "required", "mandatory", "critical", "essential"}
HighKeywords == {"should", "important", "key", "significant", "major"}
LowKeywords == {"nice to have", "optional", "preferred", "desired", "could"}

\* Variant: the high-priority keywords tested before the critical ones.
determine_priority_HighFirst(text) ==
    IF text \cap HighKeywords # {} THEN "high"
    ELSE IF text \cap CriticalKeywords # {} THEN "critical"
    ELSE IF text \cap LowKeywords # {} THEN "low"
    ELSE "medium"

\* ResearchAgent._determine_priority
determine_priority(text) ==
    IF text \cap CriticalKeywords # {} THEN "critical"
    ELSE IF text \cap HighKeywords # {} THEN "high"
    ELSE IF text \cap LowKeywords # {} THEN "low"
    ELSE "medium"

\* Inclusion threshold of _gather_evidence (0.3).
EvidenceThreshold == 30

\* ResearchAgent._calculate_confidence, in hundredths.  The texts of the
\* model have 1, 4 or 5 words, so the word term is a whole number.
calculate_confidence(search_result, requirement) ==
    LET url == IF search_result.url_kind = "company" THEN 30
               ELSE IF search_result.url_kind = "credible" THEN 20
               ELSE 0
        req_words == requirement.text
        word_matches == Cardinality({i \in 1..Len(req_words) :
                                        req_words[i] \in search_result.snippet})
        words == IF word_matches > 0
                 THEN Min(40, (word_matches * 40) \div Len(req_words))
                 ELSE 0
        name == IF search_result.names_company THEN 20 ELSE 0
    IN Min(100, url + words + name)

\* ResearchAgent._generate_evidence_queries: the number of queries returned,
\* when n_clean of the base queries have an acceptable length.
generate_evidence_queries(requirement, n_clean) ==
    LET base == IF requirement.priority = "critical" THEN 6 ELSE 4
    IN Min(4, Min(n_clean, base))

\* Variant: a result of exactly the threshold kept.
keep_result_AtThreshold(confidence) == confidence >= EvidenceThreshold

\* The inclusion test of _gather_evidence.
keep_result(confidence) == confidence > EvidenceThreshold

\* The innermost loop of _gather_evidence: the evidence kept from the
\* results of one query.
RECURSIVE evidence_of_results(_, _)
evidence_of_results(req, results) ==
    IF results = <<>> THEN <<>>
    ELSE LET confidence == calculate_confidence(Head(results), req)
             rest == evidence_of_results(req, Tail(results))
         IN IF keep_result(confidence)
            THEN <<[source_url |-> Head(results).url,
                    snippet |-> Head(results).snippet,
                    confidence |-> confidence,
                    tags |-> {req.category, "search-result"}]>> \o rest
            ELSE rest

\* n copies of s, one after the other.
RECURSIVE Repeat(_, _)
Repeat(s, n) == IF n = 0 THEN <<>> ELSE s \o Repeat(s, n - 1)

\* The loops of _gather_evidence over the requirements reqs and their
\* queries: [evidence, searched], searched naming the requirement of every
\* search issued.
RECURSIVE evidence_loop(_, _, _)
evidence_loop(reqs, n_clean, results) ==
    IF reqs = <<>> THEN [evidence |-> <<>>, searched |-> <<>>]
    ELSE LET req == Head(reqs)
             n == generate_evidence_queries(req, n_clean)
             rest == evidence_loop(Tail(reqs), n_clean, results)
         IN [evidence |-> Repeat(evidence_of_results(req, results), n)
                            \o rest.evidence,
             searched |-> [i \in 1..n |-> req.id] \o rest.searched]

\* Variant: every requirement searched.
gather_evidence_AllRequirements(requirements, n_clean, found) ==
    LET r == evidence_loop(requirements, n_clean, found.results)
    IN IF r.searched # <<>> /\ found.raised
       THEN [raised |-> TRUE, evidence |-> <<>>, searched |-> <<>>]
       ELSE [raised |-> FALSE, evidence |-> r.evidence, searched |-> r.searched]

\* ResearchAgent._gather_evidence, found being what search() does for every
\* query of the call.  The result is [raised, evidence, searched].
gather_evidence(requirements, n_clean, found) ==
    LET r == evidence_loop(Take(requirements, 2), n_clean, found.results)
    IN IF r.searched # <<>> /\ found.raised
       THEN [raised |-> TRUE, evidence |-> <<>>, searched |-> <<>>]
       ELSE [raised |-> FALSE, evidence |-> r.evidence, searched |-> r.searched]

\* Variant: the additional queries of the context searched as well.
research_agent_process_SearchingContext(in) ==
    LET ex == extract_rfp_requirements(in.rfp, in.extraction_llm)
        found == search(in.provider, in.primary, in.scrape)
        profile == research_company(in.company_name, in.n_queries, found,
                                    in.profile_llm, in.llm_name)
        ev == gather_evidence(in.requirements, in.n_clean, found)
        extra == Len(in.context.additional_queries)
    IN IF ex.raised \/ profile.raised \/ ev.raised
       THEN [raised |-> TRUE, requirements_path |-> "none",
             profile_path |-> "none", profile_name |-> "",
             searches |-> IF ex.raised THEN 0
                          ELSE IF in.n_queries > 0 /\ found.raised THEN 1
                          ELSE IF profile.raised THEN in.n_queries
                          ELSE in.n_queries + 1,
             evidence |-> <<>>, mapped_insights |-> <<>>]
       ELSE [raised |-> FALSE, requirements_path |-> ex.path,
             profile_path |-> profile.path, profile_name |-> profile.name,
             searches |-> in.n_queries + Len(ev.searched) + extra,
             evidence |-> ev.evidence
                            \o Repeat(evidence_of_results(
                                   [id |-> "context", category |-> "context",
                                    priority |-> "medium", text |-> <<>>],
                                   found.results), extra),
             mapped_insights |-> create_insights(in.requirements, ev.evidence)]

\* ResearchAgent.process, by the outcomes of the services it calls (the
\* provider's outcome is the same for every query of the call).
research_agent_process(in) ==
    LET ex == extract_rfp_requirements(in.rfp, in.extraction_llm)
        found == search(in.provider, in.primary, in.scrape)
        profile == research_company(in.company_name, in.n_queries, found,
                                    in.profile_llm, in.llm_name)
        ev == gather_evidence(in.requirements, in.n_clean, found)
    IN IF ex.raised \/ profile.raised \/ ev.raised
       THEN [raised |-> TRUE, requirements_path |-> "none",
             profile_path |-> "none", profile_name |-> "",
             \* the searches called before the fault
             searches |-> IF ex.raised THEN 0
                          ELSE IF in.n_queries > 0 /\ found.raised THEN 1
                          ELSE IF profile.raised THEN in.n_queries
                          ELSE in.n_queries + 1,
             evidence |-> <<>>, mapped_insights |-> <<>>]
       ELSE [raised |-> FALSE, requirements_path |-> ex.path,
             profile_path |-> profile.path, profile_name |-> profile.name,
             searches |-> in.n_queries + Len(ev.searched),
             evidence |-> ev.evidence,
             mapped_insights |-> create_insights(in.requirements, ev.evidence)]

\* ------------------------------------------------------------ the graph
\* Variants of _should_refine with a plausible slip each: the limit compared
\* with > instead of >=, the errors check left out, the limit left out, the
\* limit checked before the errors.
should_refine_OffByOne(st) ==
    IF st.errors # <<>> THEN "end"
    ELSE IF st.current_iteration > st.max_iterations THEN "write"
    ELSE IF ~st.validation_report.present THEN "end"
    ELSE IF st.validation_report.is_sufficient THEN "write"
    ELSE "refine"

should_refine_IgnoringErrors(st) ==
    IF st.current_iteration >= st.max_iterations THEN "write"
    ELSE IF ~st.validation_report.present THEN "end"
    ELSE IF st.validation_report.is_sufficient THEN "write"
    ELSE "refine"

should_refine_NoLimit(st) ==
    IF st.errors # <<>> THEN "end"
    ELSE IF ~st.validation_report.present THEN "end"
    ELSE IF st.validation_report.is_sufficient THEN "write"
    ELSE "refine"

should_refine_LimitFirst(st) ==
    IF st.current_iteration >= st.max_iterations THEN "write"
    ELSE IF st.errors # <<>> THEN "end"
    ELSE IF ~st.validation_report.present THEN "end"
    ELSE IF st.validation_report.is_sufficient THEN "write"
    ELSE "refine"

\* ResearchWorkflow._should_refine
should_refine(st) ==
    IF st.errors # <<>> THEN "end"
    ELSE IF st.current_iteration >= st.max_iterations THEN "write"
    ELSE IF ~st.validation_report.present THEN "end"
    ELSE IF st.validation_report.is_sufficient THEN "write"
    ELSE "refine"

\* Variant: the "refine" branch wired to the write node.
RouteTarget_RefineToWrite(route) ==
    IF route = "end" THEN "save_artifacts" ELSE "write"

\* Where the conditional edge of _build_workflow leads; END returns from
\* workflow.invoke to run(), which then saves the artifacts.
RouteTarget(route) ==
    IF route = "refine" THEN "refine"
    ELSE IF route = "write" THEN "write"
    ELSE "save_artifacts"

\* Variants of the except-branch: the message not appended, and the findings
\* dropped with the fault.
StageFault_NoMessage(st, message) == [st EXCEPT !.is_complete = TRUE]

StageFault_ClearingFindings(st, message) ==
    [st EXCEPT !.errors = Append(@, message), !.is_complete = TRUE,
               !.research_findings = EmptyFindings]

\* Variant: the run completed with the errors list emptied.
StageFault_ClearingErrors(st, message) ==
    [st EXCEPT !.errors = <<>>, !.is_complete = TRUE]

\* except-branch of a node: record the fault and complete the run
StageFault(st, message) ==
    [st EXCEPT !.errors = Append(@, message), !.is_complete = TRUE]

\* Variant: the errors list overwritten instead of appended to.
SaveFault_Overwriting(st, message) == [st EXCEPT !.errors = <<message>>]

\* except-branch of the saving nodes: record the fault only
SaveFault(st, message) == [st EXCEPT !.errors = Append(@, message)]

MarkFault == IF fault_at = 0 THEN Len(trace) + 1 ELSE fault_at

\* Variant: the suggested queries handed over from the second refinement on.
RefinementContext_OnePassLate(st) ==
    IF st.current_iteration > 1 /\ st.validation_report.present
    THEN [given |-> TRUE,
          additional_queries |->
              Flatten([i \in 1..Len(st.validation_report.gaps) |->
                          st.validation_report.gaps[i].suggested_queries])]
    ELSE NoContext

\* The context _research_node builds for research_agent.process.
RefinementContext(st) ==
    IF st.current_iteration > 0 /\ st.validation_report.present
    THEN [given |-> TRUE,
          additional_queries |->
              Flatten([i \in 1..Len(st.validation_report.gaps) |->
                          st.validation_report.gaps[i].suggested_queries])]
    ELSE NoContext

Init ==
    /\ pc = "start"
    /\ caller = "none"
    /\ rfp_kind \in {"ok", "missing", "unsupported"}
    /\ state = InitialState("", 0)
    /\ calls = [research |-> 0, validator |-> 0, writer |-> 0]
    /\ trace = <<>>
    /\ fault_at = 0
    /\ artifacts = [a \in ArtifactNames |-> 0]
    /\ summary = NoSummary
    /\ research_context = NoContext
    /\ call = NoCall
    /\ result = NoResult
    /\ jobs = NoJobs
    /\ last_queries_used = NoJobs
    /\ chunker = NoChunker

CompanyNames == {"", "Acme"}
\* The max_iterations argument of run(): [given |-> FALSE] stands for None.
MaxIterationsArgs ==
    {[given |-> TRUE, value |-> m] : m \in 0..MaxIterBound}
    \cup {[given |-> FALSE, value |-> 0]}

\* ResearchWorkflow.run up to workflow.invoke
run(company_name, max_iterations) ==
    /\ state' = InitialState(company_name,
                    IF ~max_iterations.given THEN DefaultMaxIterations
                    ELSE max_iterations.value)
    /\ pc' = "research"

\* A caller (test, HTTP front end) invokes run() directly.
DirectRun ==
    /\ pc = "start"
    /\ \E c \in CompanyNames, m \in MaxIterationsArgs : run(c, m)
    /\ caller' = "direct"
    /\ research_context' = NoContext
    /\ UNCHANGED <<other, rfp_kind, calls, trace, fault_at, artifacts, summary>>

\* Variant: the front end without its file check.
CliRun_NoCheck ==
    /\ pc = "start"
    /\ caller' = "cli"
    /\ \E c \in CompanyNames, m \in MaxIterationsArgs : run(c, m)
    /\ research_context' = NoContext
    /\ UNCHANGED <<other, rfp_kind, calls, trace, fault_at, artifacts, summary>>

\* cli.run: validates the file before it creates the workflow.
CliRun ==
    /\ pc = "start"
    /\ caller' = "cli"
    /\ IF rfp_kind # "ok"
       THEN /\ pc' = "exit"
            /\ UNCHANGED state
       ELSE \E c \in CompanyNames, m \in MaxIterationsArgs : run(c, m)
    /\ research_context' = NoContext
    /\ UNCHANGED <<other, rfp_kind, calls, trace, fault_at, artifacts, summary>>

\* ResearchWorkflow._research_node, then the edge research -> validate
research_node ==
    /\ pc = "research"
    /\ calls' = [calls EXCEPT !.research = @ + 1]
    /\ trace' = Append(trace, "research")
    /\ research_context' = RefinementContext(state)
    /\ \/ \* process_document raises for a missing or unsupported file; any
          \* uncaught failure of the completion service or the search raises
          /\ state' = StageFault(state, "Research error")
          /\ fault_at' = MarkFault
       \/ /\ rfp_kind = "ok"
          /\ \E name \in ProfileNames(state.company_name),
                reqs \in RequirementLists, ev \in EvidenceLists :
                state' = [state EXCEPT !.research_findings =
                             research_process(name, reqs, ev)]
          /\ UNCHANGED fault_at
    /\ pc' = "validate"
    /\ UNCHANGED <<other, caller, rfp_kind, artifacts, summary>>

\* ResearchWorkflow._validate_node, then the conditional edge
validate_node ==
    /\ pc = "validate"
    /\ trace' = Append(trace, "validate")
    /\ IF ~state.research_findings.present
       THEN /\ state' = StageFault(state, "No research findings to validate")
            /\ fault_at' = MarkFault
            /\ UNCHANGED calls
       ELSE /\ calls' = [calls EXCEPT !.validator = @ + 1]
            /\ \E reply \in ValidatorReplies :
                 LET r == validator_process(state.research_findings, reply)
                 IN IF r.raised
                    THEN /\ state' = StageFault(state, "Validation error")
                         /\ fault_at' = MarkFault
                    ELSE /\ state' = [state EXCEPT !.validation_report = r.report]
                         /\ UNCHANGED fault_at
    /\ pc' = RouteTarget(should_refine(state'))
    /\ research_context' = NoContext
    /\ UNCHANGED <<other, caller, rfp_kind, artifacts, summary>>

\* Variant: the findings checkpointed to disk on every refinement.
refine_node_Checkpointing ==
    /\ pc = "refine"
    /\ trace' = Append(trace, "refine")
    /\ state' = [state EXCEPT !.current_iteration = @ + 1]
    /\ artifacts' = [artifacts EXCEPT !["findings"] = @ + 1]
    /\ pc' = "research"
    /\ research_context' = NoContext
    /\ UNCHANGED <<other, caller, rfp_kind, calls, fault_at, summary>>

\* Variant: the iteration counter left as it is.
refine_node_NotCounting ==
    /\ pc = "refine"
    /\ trace' = Append(trace, "refine")
    /\ state' = state
    /\ pc' = "research"
    /\ research_context' = NoContext
    /\ UNCHANGED <<other, caller, rfp_kind, calls, fault_at, artifacts, summary>>

\* ResearchWorkflow._refine_node, then the edge refine -> research
refine_node ==
    /\ pc = "refine"
    /\ trace' = Append(trace, "refine")
    /\ state' = [state EXCEPT !.current_iteration = @ + 1]
    /\ pc' = "research"
    /\ research_context' = NoContext
    /\ UNCHANGED <<other, caller, rfp_kind, calls, fault_at, artifacts, summary>>

\* ResearchWorkflow._write_node, then the edge write -> save_research
write_node ==
    /\ pc = "write"
    /\ trace' = Append(trace, "write")
    /\ IF ~state.research_findings.present
       THEN /\ state' = StageFault(state, "No research findings for writing")
            /\ fault_at' = MarkFault
            /\ UNCHANGED calls
       ELSE /\ calls' = [calls EXCEPT !.writer = @ + 1]
            /\ \/ /\ state' = [state EXCEPT
                                 !.bid_outline = [present |-> TRUE, sections |-> 4],
                                 !.is_complete = TRUE]
                  /\ UNCHANGED fault_at
               \/ /\ state' = StageFault(state, "Writing error")
                  /\ fault_at' = MarkFault
    /\ pc' = "save_research"
    /\ research_context' = NoContext
    /\ UNCHANGED <<other, caller, rfp_kind, artifacts, summary>>

\* Body shared by the three saving nodes: write one artifact and record its
\* path, or record the fault (raised before or after the file was written).
SavingNode(artifact, path_field, missing_message, fault_message) ==
    IF ~state.research_findings.present \/ ~state.validation_report.present
    THEN /\ state' = SaveFault(state, missing_message)
         /\ UNCHANGED artifacts
    ELSE \/ /\ artifacts' = [artifacts EXCEPT ![artifact] = @ + 1]
            /\ state' = [state EXCEPT ![path_field] = artifact]
         \/ /\ \E written \in BOOLEAN :
                 artifacts' = [artifacts EXCEPT ![artifact] =
                                  IF written THEN @ + 1 ELSE @]
            /\ state' = SaveFault(state, fault_message)

\* ResearchWorkflow._save_research_node
save_research_node ==
    /\ pc = "save_research"
    /\ trace' = Append(trace, "save_research")
    /\ SavingNode("bid_research_package", "bid_research_package_path",
                  "Missing research findings or validation report for saving",
                  "Research package saving error")
    /\ pc' = "generate_unified"
    /\ research_context' = NoContext
    /\ UNCHANGED <<other, caller, rfp_kind, calls, fault_at, summary>>

\* ResearchWorkflow._generate_unified_node
generate_unified_node ==
    /\ pc = "generate_unified"
    /\ trace' = Append(trace, "generate_unified")
    /\ SavingNode("unified_bid_document", "unified_bid_document_path",
                  "Missing research findings or validation report for unified document generation",
                  "Unified document generation error")
    /\ pc' = "generate_comprehensive"
    /\ research_context' = NoContext
    /\ UNCHANGED <<other, caller, rfp_kind, calls, fault_at, summary>>

\* ResearchWorkflow._generate_comprehensive_node, then the edge to END
generate_comprehensive_node ==
    /\ pc = "generate_comprehensive"
    /\ trace' = Append(trace, "generate_comprehensive")
    /\ SavingNode("comprehensive_result", "comprehensive_result_path",
                  "Missing research findings or validation report for comprehensive result generation",
                  "Comprehensive result generation error")
    /\ pc' = "save_artifacts"
    /\ research_context' = NoContext
    /\ UNCHANGED <<other, caller, rfp_kind, calls, fault_at, summary>>

\* Variant: the summary counting the insights as evidence.
save_artifacts_CountingInsights ==
    /\ pc = "save_artifacts"
    /\ artifacts' =
         [a \in ArtifactNames |->
            IF \/ a \in {"inputs", "summary"}
               \/ a = "findings" /\ state.research_findings.present
               \/ a = "validation" /\ state.validation_report.present
               \/ a = "outline" /\ state.bid_outline.present
            THEN artifacts[a] + 1 ELSE artifacts[a]]
    /\ summary' =
         [written |-> TRUE,
          iterations |-> state.current_iteration,
          is_complete |-> state.is_complete,
          errors |-> state.errors,
          coverage_score |-> state.validation_report.coverage_score,
          requirements_count |-> Len(state.research_findings.extracted_requirements),
          evidence_count |-> Len(state.research_findings.mapped_insights)]
    /\ pc' = "returned"
    /\ research_context' = NoContext
    /\ UNCHANGED <<other, caller, rfp_kind, state, calls, trace, fault_at>>

\* ResearchWorkflow._save_artifacts, called by run() on the state that
\* workflow.invoke returned; run() then returns that state.
save_artifacts ==
    /\ pc = "save_artifacts"
    /\ artifacts' =
         [a \in ArtifactNames |->
            IF \/ a \in {"inputs", "summary"}
               \/ a = "findings" /\ state.research_findings.present
               \/ a = "validation" /\ state.validation_report.present
               \/ a = "outline" /\ state.bid_outline.present
            THEN artifacts[a] + 1 ELSE artifacts[a]]
    /\ summary' =
         [written |-> TRUE,
          iterations |-> state.current_iteration,
          is_complete |-> state.is_complete,
          errors |-> state.errors,
          coverage_score |-> state.validation_report.coverage_score,
          requirements_count |-> Len(state.research_findings.extracted_requirements),
          evidence_count |-> Len(state.research_findings.evidence)]
    /\ pc' = "returned"
    /\ research_context' = NoContext
    /\ UNCHANGED <<other, caller, rfp_kind, state, calls, trace, fault_at>>

Next ==
    \/ DirectRun
    \/ CliRun
    \/ research_node
    \/ validate_node
    \/ refine_node
    \/ write_node
    \/ save_research_node
    \/ generate_unified_node
    \/ generate_comprehensive_node
    \/ save_artifacts

Spec == Init /\ [][Next]_vars

\* The graph library runs the next node whenever there is one, and run()
\* goes on to save the artifacts and return.
FairSpec == Spec /\ WF_vars(Next)

TypeOK ==
    /\ pc \in {"start", "exit", "research", "validate", "refine", "write",
               "save_research", "generate_unified", "generate_comprehensive",
               "save_artifacts", "returned"}
    /\ caller \in {"none", "cli", "direct"}
    /\ state.current_iteration \in 0..(DefaultMaxIterations + MaxIterBound)
    /\ state.is_complete \in BOOLEAN

\* ---------------------------------------------------------- single calls
\* A second specification: one call of ValidatorAgent.process, of
\* ResearchAgent.process or of SearchTool.search, for every input of a
\* bounded set.
AllProfileNames == UNION {ProfileNames(c) : c \in CompanyNames}

\* Insights given without evidence (findings built by hand, as a caller of
\* the validator may).
BareFindings ==
    [present |-> TRUE, company_profile_name |-> "Acme",
     extracted_requirements |-> <<Req1, Req2>>, evidence |-> <<>>,
     mapped_insights |-> <<[requirement_id |-> "REQ-001",
                            supporting_evidence_idx |-> <<>>,
                            confidence |-> 50]>>]

\* Findings the ResearchFindings model accepts although an insight names a
\* requirement that is not among the extracted ones: with and without
\* evidence.
ForeignFindings ==
    {[present |-> TRUE, company_profile_name |-> "Acme",
      extracted_requirements |-> <<Req1>>, evidence |-> e,
      mapped_insights |-> <<[requirement_id |-> "REQ-001",
                             supporting_evidence_idx |-> <<>>,
                             confidence |-> 50],
                            [requirement_id |-> "REQ-999",
                             supporting_evidence_idx |-> <<>>,
                             confidence |-> 50]>>] :
        e \in {<<>>, <<Ev2>>, <<Ev3>>}}

ValidatorFindings ==
    {research_process(n, r, e) :
        n \in AllProfileNames, r \in RequirementLists, e \in EvidenceLists}
    \cup {BareFindings} \cup ForeignFindings

CallReplyScores == {-10, 0, 69, 70, 71, 100, 101}
CallReplies ==
    {[kind |-> k, validation_score |-> 0, additional_search_queries |-> <<>>] :
        k \in {"llm_error", "empty", "bad_json", "not_object",
               "object_missing_keys"}}
    \cup
    {[kind |-> "object", validation_score |-> sc, additional_search_queries |-> q] :
        sc \in CallReplyScores, q \in LlmQueries}

ValidatorCalls ==
    {[fn |-> "validator_process", findings |-> f, reply |-> r] :
        f \in ValidatorFindings, r \in CallReplies}

SearchCalls ==
    {[fn |-> "search", provider |-> p, primary |-> o, scrape |-> s] :
        p \in SearchProviders, o \in RequestOutcomes, s \in RequestOutcomes}

\* The context argument of process: none on the first pass, the suggested
\* queries of the validation report on a refinement pass.
CallContexts ==
    {NoContext, [given |-> TRUE, additional_queries |-> <<>>],
     [given |-> TRUE, additional_queries |-> << <<"q1">>, <<"q2">> >>]}

ResearchCalls ==
    {[fn |-> "research_process", rfp |-> k, company_name |-> "Acme",
      extraction_llm |-> x, profile_llm |-> y, llm_name |-> "Acme Ltd",
      n_queries |-> n, requirements |-> r, n_clean |-> 4, provider |-> p,
      primary |-> [fails |-> f, results |-> <<ResultA>>],
      scrape |-> [fails |-> f, results |-> <<ResultA>>], context |-> c] :
        k \in {"ok", "missing"}, x \in LlmOutcomes, y \in LlmOutcomes,
        n \in {0, 3}, r \in {<<>>, <<Req1>>}, p \in SearchProviders,
        f \in BOOLEAN, c \in CallContexts}

Req3 == [id |-> "REQ-003", category |-> "integration", priority |-> "medium",
         text |-> <<"api">>]

\* What a provider delivers for a query, before search cuts the list to
\* num_results.
ItemLists ==
    {<<>>, <<ResultA>>, <<ResultD, ResultB, ResultE>>,
     <<ResultA, ResultB, ResultC>>, <<ResultC, ResultE, ResultD, ResultA>>,
     <<ResultA, ResultA, ResultA, ResultA>>}

\* _search_tavily / _search_serpapi: the first num_results items.
provider_results(items, num_results) == Take(items, num_results)

GatherCalls ==
    {[fn |-> "gather_evidence", requirements |-> r, n_clean |-> n, items |-> it] :
        r \in {<<>>, <<Req1>>, <<Req2, Req1>>, <<Req1, Req2, Req3>>,
               <<Req3, Req2, Req1>>},
        n \in 0..6, it \in ItemLists}

Ev4 == [source_url |-> "u4", snippet |-> {"fast"}, confidence |-> 60,
        tags |-> {"support", "search-result"}]

InsightCalls ==
    {[fn |-> "create_insights", requirements |-> r, evidence |-> e] :
        r \in {<<>>, <<Req1>>, <<Req1, Req2>>, <<Req3, Req1>>},
        e \in EvidenceLists \cup {<<Ev4>>, <<Ev4, Ev1>>, <<Ev2, Ev4, Ev3, Ev1>>}}

\* Requirement texts of the fallback extraction: every set of these
\* keywords that a text can contain ("implementation" contains "implement",
\* "time" is part of "timeline").
SampleKeywords ==
    {"api", "support", "timeline", "time", "implementation", "implement",
     "users", "must", "should", "optional"}
SampleTexts ==
    {t \in SUBSET SampleKeywords :
        /\ "implementation" \in t => "implement" \in t
        /\ "timeline" \in t => "time" \in t}

ClassifyCalls == {[fn |-> "classify", text |-> t] : t \in SampleTexts}

CallInit ==
    /\ pc = "call"
    /\ caller = "none"
    /\ rfp_kind = "ok"
    /\ state = InitialState("", 0)
    /\ calls = [research |-> 0, validator |-> 0, writer |-> 0]
    /\ trace = <<>>
    /\ fault_at = 0
    /\ artifacts = [a \in ArtifactNames |-> 0]
    /\ summary = NoSummary
    /\ research_context = NoContext
    /\ call \in ValidatorCalls \cup SearchCalls \cup ResearchCalls
                \cup GatherCalls \cup InsightCalls \cup ClassifyCalls
    /\ result = NoResult
    /\ jobs = NoJobs
    /\ last_queries_used = NoJobs
    /\ chunker = NoChunker

workflowVars ==
    <<pc, caller, rfp_kind, state, calls, trace, fault_at, artifacts, summary,
      research_context>>

validator_call ==
    /\ call.fn = "validator_process"
    /\ ~result.done
    /\ LET r == validator_process(call.findings, call.reply)
       IN result' = [done |-> TRUE, raised |-> r.raised, report |-> r.report]
    /\ UNCHANGED <<workflowVars, call, concurrentVars, chunkVars>>

search_call ==
    /\ call.fn = "search"
    /\ ~result.done
    /\ LET r == search(call.provider, call.primary, call.scrape)
       IN result' = [done |-> TRUE, raised |-> r.raised, results |-> r.results]
    /\ UNCHANGED <<workflowVars, call, concurrentVars, chunkVars>>

research_call ==
    /\ call.fn = "research_process"
    /\ ~result.done
    /\ LET r == research_agent_process(call)
       IN result' = [done |-> TRUE, raised |-> r.raised,
                     requirements_path |-> r.requirements_path,
                     profile_path |-> r.profile_path,
                     profile_name |-> r.profile_name,
                     searches |-> r.searches,
                     evidence |-> r.evidence,
                     mapped_insights |-> r.mapped_insights]
    /\ UNCHANGED <<workflowVars, call, concurrentVars, chunkVars>>

gather_call ==
    /\ call.fn = "gather_evidence"
    /\ ~result.done
    /\ LET found == [raised |-> FALSE,
                     results |-> provider_results(call.items, 3)]
           r == gather_evidence(call.requirements, call.n_clean, found)
       IN result' = [done |-> TRUE, raised |-> r.raised,
                     evidence |-> r.evidence, searched |-> r.searched]
    /\ UNCHANGED <<workflowVars, call, concurrentVars, chunkVars>>

insights_call ==
    /\ call.fn = "create_insights"
    /\ ~result.done
    /\ result' = [done |-> TRUE, raised |-> FALSE,
                  insights |-> create_insights(call.requirements, call.evidence)]
    /\ UNCHANGED <<workflowVars, call, concurrentVars, chunkVars>>

\* The two classifications _fallback_extraction makes of a requirement text.
classify_call ==
    /\ call.fn = "classify"
    /\ ~result.done
    /\ result' = [done |-> TRUE, raised |-> FALSE,
                  category |-> categorize_requirement(call.text),
                  priority |-> determine_priority(call.text)]
    /\ UNCHANGED <<workflowVars, call, concurrentVars, chunkVars>>

CallNext ==
    \/ validator_call \/ search_call \/ research_call \/ gather_call
    \/ insights_call \/ classify_call

CallSpec == CallInit /\ [][CallNext]_vars

\* -------------------------------------------------- two concurrent runs
\* A third specification: two runs of ResearchWorkflow.run side by side, each
\* on a workflow object (the same one or one of its own), their nodes
\* interleaved.  A run's WorkflowState is created by its own call of run()
\* and its files go to a directory named by its own run_id, so of each run
\* only the position in the graph, the iteration count, the presence of
\* errors and the search queries are kept; the attribute _last_queries_used
\* belongs to the research agent of the workflow object.
Runs == {1, 2}
Workflows == {1, 2}
JobCompany(r) == IF r = 1 THEN "Acme" ELSE "Globex"
JobMaxIterations == {0, 1}

\* Query lists _generate_rfp_specific_search_queries can return for a company
\* (generated by the completion service, or the fallback templates).
GeneratedQueries(company_name) ==
    {<< <<company_name, "implementation case study">> >>,
     << <<company_name, "sector experience projects">>,
        <<company_name, "capabilities">> >>}

NewJob(w, m) ==
    [workflow |-> w, pc |-> "research", max_iterations |-> m,
     current_iteration |-> 0, errors |-> FALSE, queries |-> <<>>,
     unified |-> [written |-> FALSE, search_queries_used |-> <<>>],
     comprehensive |-> [written |-> FALSE, search_queries_used |-> <<>>]]

ConcurrentInit ==
    /\ pc = "concurrent"
    /\ caller = "none"
    /\ rfp_kind = "ok"
    /\ state = InitialState("", 0)
    /\ calls = [research |-> 0, validator |-> 0, writer |-> 0]
    /\ trace = <<>>
    /\ fault_at = 0
    /\ artifacts = [a \in ArtifactNames |-> 0]
    /\ summary = NoSummary
    /\ research_context = NoContext
    /\ call = NoCall
    /\ result = NoResult
    /\ \E w \in [Runs -> Workflows], m \in [Runs -> JobMaxIterations] :
         jobs = [r \in Runs |-> NewJob(w[r], m[r])]
    \* ResearchAgent.__init__
    /\ last_queries_used = [w \in Workflows |-> <<>>]
    /\ chunker = NoChunker

JobStep(r, job) ==
    /\ jobs' = [jobs EXCEPT ![r] = job]
    /\ UNCHANGED <<workflowVars, callVars, chunkVars>>

\* _research_node of run r: the research agent of r's workflow object stores
\* the queries of this pass, unless the pass faults before it has them.
job_research_node(r) ==
    /\ jobs[r].pc = "research"
    /\ \/ /\ JobStep(r, [jobs[r] EXCEPT !.pc = "validate", !.errors = TRUE])
          /\ UNCHANGED last_queries_used
       \/ \E q \in GeneratedQueries(JobCompany(r)), fault \in BOOLEAN :
            /\ last_queries_used' =
                  [last_queries_used EXCEPT ![jobs[r].workflow] = q]
            /\ JobStep(r, [jobs[r] EXCEPT !.pc = "validate", !.queries = q,
                                          !.errors = fault])

\* _validate_node and _should_refine of run r
job_validate_node(r) ==
    /\ jobs[r].pc = "validate"
    /\ UNCHANGED last_queries_used
    /\ IF jobs[r].errors
       THEN JobStep(r, [jobs[r] EXCEPT !.pc = "save_artifacts"])
       ELSE \/ \* the validation faults
               JobStep(r, [jobs[r] EXCEPT !.pc = "save_artifacts", !.errors = TRUE])
            \/ \E is_sufficient \in BOOLEAN :
                 JobStep(r, [jobs[r] EXCEPT !.pc =
                    IF jobs[r].current_iteration >= jobs[r].max_iterations
                    THEN "write"
                    ELSE IF is_sufficient THEN "write" ELSE "refine"])

job_refine_node(r) ==
    /\ jobs[r].pc = "refine"
    /\ UNCHANGED last_queries_used
    /\ JobStep(r, [jobs[r] EXCEPT !.pc = "research", !.current_iteration = @ + 1])

\* _write_node and _save_research_node of run r
job_write_node(r) ==
    /\ jobs[r].pc = "write"
    /\ UNCHANGED last_queries_used
    /\ \E fault \in BOOLEAN :
         JobStep(r, [jobs[r] EXCEPT !.pc = "save_research",
                                    !.errors = @ \/ fault])

job_save_research_node(r) ==
    /\ jobs[r].pc = "save_research"
    /\ UNCHANGED last_queries_used
    /\ \E fault \in BOOLEAN :
         JobStep(r, [jobs[r] EXCEPT !.pc = "generate_unified",
                                    !.errors = @ \/ fault])

\* _generate_unified_node of run r: the document lists the queries read from
\* the research agent of r's workflow object.
job_generate_unified_node(r) ==
    /\ jobs[r].pc = "generate_unified"
    /\ UNCHANGED last_queries_used
    /\ \/ JobStep(r, [jobs[r] EXCEPT !.pc = "generate_comprehensive",
                          !.unified = [written |-> TRUE,
                                       search_queries_used |->
                                         last_queries_used[jobs[r].workflow]]])
       \/ JobStep(r, [jobs[r] EXCEPT !.pc = "generate_comprehensive",
                                     !.errors = TRUE])

\* _generate_comprehensive_node of run r
job_generate_comprehensive_node(r) ==
    /\ jobs[r].pc = "generate_comprehensive"
    /\ UNCHANGED last_queries_used
    /\ \/ JobStep(r, [jobs[r] EXCEPT !.pc = "save_artifacts",
                          !.comprehensive = [written |-> TRUE,
                                             search_queries_used |->
                                               last_queries_used[jobs[r].workflow]]])
       \/ JobStep(r, [jobs[r] EXCEPT !.pc = "save_artifacts", !.errors = TRUE])

\* _save_artifacts of run r, and the return of run()
job_save_artifacts(r) ==
    /\ jobs[r].pc = "save_artifacts"
    /\ UNCHANGED last_queries_used
    /\ JobStep(r, [jobs[r] EXCEPT !.pc = "returned"])

ConcurrentNext ==
    \E r \in Runs :
        \/ job_research_node(r)
        \/ job_validate_node(r)
        \/ job_refine_node(r)
        \/ job_write_node(r)
        \/ job_save_research_node(r)
        \/ job_generate_unified_node(r)
        \/ job_generate_comprehensive_node(r)
        \/ job_save_artifacts(r)

ConcurrentSpec == ConcurrentInit /\ [][ConcurrentNext]_vars

\* ------------------------------------------------ chunking of a page text
\* A text is its length, the positions of its full stops and the positions
\* of its white space (positions count from 0).
EmptyText == [len |-> 0, stops |-> {}, spaces |-> {}]
\* "This is a long text. " * 10, the text of test_chunk_text
TestText ==
    [len |-> 210,
     stops |-> {21 * k + 19 : k \in 0..9},
     spaces |-> {21 * k + o : k \in 0..9, o \in {4, 7, 9, 14, 20}}]
\* "a" * 60
PlainText == [len |-> 60, stops |-> {}, spaces |-> {}]
\* "aaaaa." + "a" * 60
EarlyStopText == [len |-> 66, stops |-> {5}, spaces |-> {}]
\* "a" * 60 + "." + "a" * 300
MidStopText == [len |-> 361, stops |-> {60}, spaces |-> {}]
\* ("a" * 499 + ".") * 8
LongText == [len |-> 4000, stops |-> {500 * k + 499 : k \in 0..7}, spaces |-> {}]
ChunkTexts ==
    {EmptyText, TestText, PlainText, EarlyStopText, MidStopText, LongText}

\* (chunk_size, overlap): the defaults of __init__, the setting of
\* test_chunk_text, and three more with chunk_size > overlap >= 0.
ChunkSettings == {<<1500, 200>>, <<50, 10>>, <<150, 100>>, <<120, 20>>, <<3, 0>>}

\* The sentence boundary is taken when it lies in the last 100 characters of
\* the chunk.
SentenceWindow == 100

\* Chunks appended in one call, at most.
MaxChunks == 100

\* Python's adjustment of a slice index i for a string of length n.
SliceIndex(i, n) ==
    IF i < 0 THEN (IF i + n < 0 THEN 0 ELSE i + n)
    ELSE IF i > n THEN n ELSE i

\* text.rfind('.', start, end): the last full stop in the slice, or -1.
rfind(text, start, end) ==
    LET lo == SliceIndex(start, text.len)
        hi == SliceIndex(end, text.len)
        found == {p \in text.stops : lo <= p /\ p < hi}
    IN IF found = {} THEN -1
       ELSE CHOOSE p \in found : \A q \in found : q <= p

\* text[start:end].strip() is not empty.
chunk_text(text, start, end) ==
    \E p \in SliceIndex(start, text.len)..(SliceIndex(end, text.len) - 1) :
        p \notin text.spaces

ChunkInit ==
    /\ pc = "chunk"
    /\ caller = "none"
    /\ rfp_kind = "ok"
    /\ state = InitialState("", 0)
    /\ calls = [research |-> 0, validator |-> 0, writer |-> 0]
    /\ trace = <<>>
    /\ fault_at = 0
    /\ artifacts = [a \in ArtifactNames |-> 0]
    /\ summary = NoSummary
    /\ research_context = NoContext
    /\ call = NoCall
    /\ result = NoResult
    /\ jobs = NoJobs
    /\ last_queries_used = NoJobs
    /\ \E t \in ChunkTexts, c \in ChunkSettings :
         chunker = [pc |-> "loop", text |-> t, chunk_size |-> c[1],
                    overlap |-> c[2], start |-> 0, chunks |-> 0]

\* One iteration of the while loop of _chunk_text, with its break.
chunk_iteration ==
    /\ chunker.pc = "loop"
    /\ chunker.start < chunker.text.len
    /\ chunker.chunks < MaxChunks
    /\ LET text == chunker.text
           start == chunker.start
           end0 == start + chunker.chunk_size
           sentence_end == rfind(text, start, end0)
           end == IF /\ end0 < text.len
                     /\ sentence_end > start + chunker.chunk_size - SentenceWindow
                  THEN sentence_end + 1
                  ELSE end0
           next == end - chunker.overlap
       IN chunker' = [chunker EXCEPT
                        !.chunks = IF chunk_text(text, start, end)
                                   THEN @ + 1 ELSE @,
                        !.start = next,
                        !.pc = IF next >= text.len THEN "returned" ELSE "loop"]
    /\ UNCHANGED <<workflowVars, callVars, concurrentVars>>

\* The while condition fails: return chunks.
chunk_return ==
    /\ chunker.pc = "loop"
    /\ chunker.start >= chunker.text.len
    /\ chunker' = [chunker EXCEPT !.pc = "returned"]
    /\ UNCHANGED <<workflowVars, callVars, concurrentVars>>

ChunkNext == chunk_iteration \/ chunk_return

\* The loop is not suspended: an iteration that can run does run.
ChunkSpec == ChunkInit /\ [][ChunkNext]_vars /\ WF_vars(ChunkNext)

\* ------------------------------------------------------------- claims
IsPrefix(s, t) == Len(s) <= Len(t) /\ SubSeq(t, 1, Len(s)) = s

Range(s) == {s[i] : i \in 1..Len(s)}

Ended == pc \in {"returned", "exit"}

LoopNodes == {"research", "validate", "refine", "write"}

\* C1: for every max_iterations >= 0 and every sequence of stage outcomes the
\* run ends, the research stage has been invoked at most max_iterations + 1
\* times, and the state run() returns has is_complete = TRUE.
C1_Termination ==
    /\ [](pc # "start" => calls.research <= state.max_iterations + 1)
    /\ [](pc = "returned" => state.is_complete)
    /\ <>Ended

\* C1 witness: a run that used every allowed research pass has returned.
C1_Witness ==
    /\ pc = "returned"
    /\ state.max_iterations >= 1
    /\ calls.research = state.max_iterations + 1

\* C2: once a stage fault has been caught, no agent (research, validation,
\* writing) is invoked any more in the run.
C2_NoStageAfterFault == [][fault_at # 0 => calls' = calls]_vars

\* C3: the research stage is never invoked while errors is non-empty, and a
\* second or later invocation happens only right after the refine node, with
\* a validation report that is present and not sufficient.
C3_OnlyRefineRetries ==
    [][calls'.research > calls.research =>
        /\ state.errors = <<>>
        /\ calls.research >= 1 =>
             /\ trace[Len(trace)] = "refine"
             /\ state.validation_report.present
             /\ ~state.validation_report.is_sufficient]_vars

\* C3 witness: the research stage has run a second time.
C3_Witness == calls.research = 2 /\ pc = "validate"

NoArtifact == \A a \in ArtifactNames : artifacts[a] = 0

C6_PersistedOnce ==
    /\ \A a \in ArtifactNames : artifacts[a] <= 1
    /\ pc \in LoopNodes \cup {"start", "exit"} => NoArtifact
    /\ artifacts["summary"] = (IF pc = "returned" THEN 1 ELSE 0)
    /\ summary.written <=> pc = "returned"

\* C6 witness: a run on the success path has written every artifact.
C6_Witness ==
    /\ pc = "returned"
    /\ \A a \in ArtifactNames : artifacts[a] = 1

\* C7 (as claimed): no field of the state changes once is_complete = TRUE.
C7_ImmutableOnceComplete == [][state.is_complete => state' = state]_vars

\* C7 (amended): once is_complete = TRUE it stays TRUE, the inputs,
\* current_iteration, research_findings and bid_outline never change, and
\* errors only grows by appending; later nodes still append errors, record
\* artifact paths and may set validation_report.
C7_FrozenAfterComplete ==
    [][state.is_complete =>
        /\ state'.is_complete
        /\ state'.company_name = state.company_name
        /\ state'.max_iterations = state.max_iterations
        /\ state'.current_iteration = state.current_iteration
        /\ state'.research_findings = state.research_findings
        /\ state'.bid_outline = state.bid_outline
        /\ IsPrefix(state.errors, state'.errors)]_vars

\* C7 witness: a completed state that later nodes went on to change.
C7_Witness ==
    /\ pc = "returned"
    /\ state.errors = <<"Writing error", "Unified document generation error">>
    /\ state.bid_research_package_path # ""

\* C8 (as claimed): the evidence held before a step is a prefix of the
\* evidence held after it.
C8_EvidenceAppendOnly ==
    [][IsPrefix(state.research_findings.evidence,
                state'.research_findings.evidence)]_vars

\* C8 (amended): evidence is replaced, not accumulated: only a research pass
\* that returns findings changes research_findings (to the findings of that
\* pass alone); every other node, and a research pass that faults, leaves the
\* findings and their evidence as they were.
C8_EvidenceReplacedByResearchOnly ==
    [][state'.research_findings # state.research_findings =>
        /\ pc = "research"
        /\ state'.errors = state.errors
        /\ \E name \in ProfileNames(state.company_name),
              reqs \in RequirementLists, ev \in EvidenceLists :
             state'.research_findings = research_process(name, reqs, ev)]_vars

\* C8 witness: the second research pass returned <<Ev3>>, while the report of
\* the first pass (score 0.40, which only the fallback gives, and only for
\* the evidence <<Ev1>>) shows that Ev1 was held before: Ev1 is gone.
C8_Witness ==
    /\ calls.research = 2
    /\ pc = "validate"
    /\ state.errors = <<>>
    /\ state.research_findings.evidence = <<Ev3>>
    /\ state.validation_report.coverage_score = 40

\* C9: an insufficient report with errors empty and current_iteration below
\* max_iterations leads to the refine node, which adds exactly 1 to
\* current_iteration and leads to the research node, which invokes the
\* research stage again.
C9_RefineTaken ==
    [][/\ (/\ pc = "validate"
           /\ state'.validation_report.present
           /\ ~state'.validation_report.is_sufficient
           /\ state'.errors = <<>>
           /\ state'.current_iteration < state'.max_iterations)
          => pc' = "refine"
       /\ pc = "refine" =>
            /\ state'.current_iteration = state.current_iteration + 1
            /\ pc' = "research"
       /\ pc = "research" => calls'.research = calls.research + 1]_vars

\* C9 witness: the first refinement has been done and the research stage
\* has been invoked a second time.
C9_Witness ==
    /\ trace = <<"research", "validate", "refine", "research">>
    /\ state.current_iteration = 1
    /\ calls.research = 2

\* C10: with max_iterations = 0 the refine node is never taken, and a run
\* without stage fault consists of one research call, one validator call and
\* then the write node, whatever the validation score.
C10_ZeroIterations ==
    (pc # "start" /\ state.max_iterations = 0) =>
        /\ "refine" \notin Range(trace)
        /\ (pc = "returned" /\ fault_at = 0) =>
             /\ calls = [research |-> 1, validator |-> 1, writer |-> 1]
             /\ SubSeq(trace, 1, 3) = <<"research", "validate", "write">>

\* C10 witness: a run with max_iterations = 0 wrote the bid outline on an
\* insufficient report.
C10_Witness ==
    /\ pc = "returned"
    /\ state.max_iterations = 0
    /\ fault_at = 0
    /\ ~state.validation_report.is_sufficient
    /\ state.bid_outline.present

\* q is the concatenation, in order, of the sequences of seqs.
RECURSIVE IsConcatenation(_, _)
IsConcatenation(q, seqs) ==
    IF seqs = <<>> THEN q = <<>>
    ELSE /\ IsPrefix(Head(seqs), q)
         /\ IsConcatenation(SubSeq(q, Len(Head(seqs)) + 1, Len(q)), Tail(seqs))

\* C11: the first research pass (current_iteration = 0) gets an empty
\* context; every pass after a refinement gets as additional_queries the
\* suggested_queries of all gaps of the latest validation report, concatenated
\* in order.
C11_RefinementContext ==
    [][calls'.research > calls.research =>
        IF state.current_iteration = 0
        THEN research_context' = NoContext
        ELSE /\ trace[Len(trace)] = "refine"
             /\ research_context'.given
             /\ IsConcatenation(research_context'.additional_queries,
                    [i \in 1..Len(state.validation_report.gaps) |->
                        state.validation_report.gaps[i].suggested_queries])]_vars

\* C11 witness: the second research pass was given the two queries that the
\* completion service suggested in the first validation.
C11_Witness ==
    /\ calls.research = 2
    /\ state.current_iteration = 1
    /\ research_context = [given |-> TRUE,
                           additional_queries |-> << <<"q1">>, <<"q2">> >>]

ValidatorReturned ==
    call.fn = "validator_process" /\ result.done /\ ~result.raised

\* The reply parsed into an object whose score the report accepts: the
\* primary path built the report.
PrimaryReply ==
    \/ call.reply.kind = "object_missing_keys"
    \/ /\ call.reply.kind = "object"
       /\ call.reply.validation_score >= 0
       /\ call.reply.validation_score <= 100

\* The reply did not parse, or its score is outside [0, 1]: the fallback
\* path built the report.
FallbackReply ==
    \/ call.reply.kind \in {"empty", "bad_json"}
    \/ /\ call.reply.kind = "object"
       /\ (call.reply.validation_score < 0 \/ call.reply.validation_score > 100)

\* C12: every report the validator returns, on the primary and on the
\* fallback path, has is_sufficient exactly when coverage_score >= 0.7.
C12_SufficientIffThreshold ==
    ValidatorReturned =>
        (result.report.is_sufficient <=> result.report.coverage_score >= 70)

\* C12 witness: the completion service scored 0.70 and the report is
\* sufficient.
C12_Witness ==
    /\ ValidatorReturned
    /\ call.reply.kind = "object"
    /\ call.reply.validation_score = 70
    /\ result.report.coverage_score = 70
    /\ result.report.is_sufficient

\* The provider selected by search() cannot fail the call: it is the
\* scraping fallback, or its request succeeds.
SearchWorks == call.provider = "fallback" \/ ~call.primary.fails

\* C13 (as claimed): a failure of the completion service in the requirement
\* extraction call, the profile synthesis call or the validation call is
\* recovered by the stage: the call of the stage returns.
C13_ServiceFailureRecovered ==
    /\ (/\ call.fn = "validator_process"
        /\ result.done
        /\ call.reply.kind = "llm_error") => ~result.raised
    /\ (/\ call.fn = "research_process"
        /\ result.done
        /\ call.rfp = "ok"
        /\ SearchWorks
        /\ "error" \in {call.extraction_llm, call.profile_llm}) => ~result.raised

\* C14 (as claimed): for a reply that is empty, not JSON, JSON but not an
\* object, an object without the expected keys, or an object with a score
\* outside [0, 1], validate does not raise and returns the fallback report.
C14_ParseFaultFallsBack ==
    (/\ call.fn = "validator_process"
     /\ result.done
     /\ \/ FallbackReply
        \/ call.reply.kind \in {"not_object", "object_missing_keys"})
    => /\ ~result.raised
       /\ result.report = simple_fallback_validation(call.findings).report

\* C15 (as claimed): search() returns a list also when the selected provider
\* fails, and a research pass whose documents and completions are fine
\* returns its findings then.
C15_SearchNeverRaises ==
    /\ (call.fn = "search" /\ result.done) => ~result.raised
    /\ (/\ call.fn = "research_process"
        /\ result.done
        /\ call.rfp = "ok"
        /\ "error" \notin {call.extraction_llm, call.profile_llm})
       => ~result.raised

\* C19: on the primary path the report has exactly one gap, with
\* requirement_id ADDITIONAL_RESEARCH and the reply's
\* additional_search_queries as suggested_queries, when the score is below
\* 0.7 and the reply has queries; in every other case it has no gap.
C19_PrimaryGaps ==
    (ValidatorReturned /\ PrimaryReply) =>
        IF /\ call.reply.kind = "object"
           /\ call.reply.validation_score < 70
           /\ call.reply.additional_search_queries # <<>>
        THEN result.report.gaps =
                <<[requirement_id |-> "ADDITIONAL_RESEARCH",
                   suggested_queries |-> call.reply.additional_search_queries]>>
        ELSE result.report.gaps = <<>>

\* C19 witness: a reply scored 0.69 with two queries gave one gap.
C19_Witness ==
    /\ ValidatorReturned
    /\ call.reply.kind = "object"
    /\ call.reply.validation_score = 69
    /\ call.reply.additional_search_queries = << <<"q1">>, <<"q2">> >>
    /\ Len(result.report.gaps) = 1

\* C20: the fallback score is coverage_ratio times the mean confidence of
\* the evidence, or times 0.5 without evidence, where coverage_ratio is the
\* number of distinct requirement_ids with an insight over the number of
\* requirements (0 without requirements); it is 0 without evidence and
\* insights; below 0.7 the report has exactly one gap, with exactly 5
\* queries, each built from the company name of the findings.
C20_FallbackScore ==
    (ValidatorReturned /\ FallbackReply) =>
        LET f == call.findings
            nreq == Len(f.extracted_requirements)
            nev == Len(f.evidence)
            covered == Cardinality({f.mapped_insights[i].requirement_id :
                                       i \in 1..Len(f.mapped_insights)})
            score == result.report.coverage_score
            gaps == result.report.gaps
        IN /\ nreq = 0 => score = 0
           /\ (nreq > 0 /\ nev > 0) =>
                score = (covered * SumConfidence(f.evidence)) \div (nreq * nev)
           /\ (nreq > 0 /\ nev = 0) => score = (covered * 50) \div nreq
           /\ (nev = 0 /\ f.mapped_insights = <<>>) => score = 0
           /\ score < 70 =>
                /\ Len(gaps) = 1
                /\ Len(gaps[1].suggested_queries) = 5
                /\ \A i \in 1..5 :
                     Head(gaps[1].suggested_queries[i]) = f.company_profile_name

\* C20 witness: the fallback scored 0.40 (one of two requirements covered,
\* mean confidence 0.80) and suggested its five queries.
C20_Witness ==
    /\ ValidatorReturned
    /\ call.reply.kind = "bad_json"
    /\ call.findings.extracted_requirements = <<Req1, Req2>>
    /\ call.findings.evidence = <<Ev1>>
    /\ result.report.coverage_score = 40
    /\ Len(result.report.gaps) = 1

\* C17: the summary written at the end of a run has iterations, is_complete
\* and errors of the state run() returns, the coverage_score of its
\* validation report (0.0 without report), and as requirements_count and
\* evidence_count the lengths of the two lists of its findings.
C17_SummaryFaithful ==
    summary.written =>
        /\ pc = "returned"
        /\ summary.iterations = state.current_iteration
        /\ summary.is_complete = state.is_complete
        /\ summary.errors = state.errors
        /\ summary.coverage_score =
              (IF state.validation_report.present
               THEN state.validation_report.coverage_score ELSE 0)
        /\ summary.requirements_count =
              Len(state.research_findings.extracted_requirements)
        /\ summary.evidence_count = Len(state.research_findings.evidence)

\* C17 witness: the summary of a run that refined once and ended with two
\* requirements, two pieces of evidence (one insight) and an error.
C17_Witness ==
    /\ summary.written
    /\ summary.iterations = 1
    /\ summary.errors = <<"Writing error">>
    /\ summary.coverage_score = 80
    /\ summary.requirements_count = 2
    /\ summary.evidence_count = 2
    /\ Len(state.research_findings.mapped_insights) = 1

\* The decision C18 claims, as a table read top to bottom.
Decision(st) ==
    CASE st.errors # <<>> -> "end"
      [] st.errors = <<>> /\ st.current_iteration >= st.max_iterations -> "write"
      [] st.errors = <<>> /\ st.current_iteration < st.max_iterations
           /\ ~st.validation_report.present -> "end"
      [] st.errors = <<>> /\ st.current_iteration < st.max_iterations
           /\ st.validation_report.present
           /\ st.validation_report.is_sufficient -> "write"
      [] OTHER -> "refine"

DecisionInputs ==
    {[InitialState("Acme", m) EXCEPT
         !.current_iteration = i, !.errors = e, !.validation_report = r] :
        m \in 0..2, i \in 0..2,
        e \in {<<>>, <<"Research error">>},
        r \in {EmptyReport,
               [present |-> TRUE, coverage_score |-> 80, gaps |-> <<>>,
                is_sufficient |-> TRUE],
               [present |-> TRUE, coverage_score |-> 50, gaps |-> <<>>,
                is_sufficient |-> FALSE]}}

\* C18: the decision after the validate node is: errors non-empty -> END;
\* else current_iteration >= max_iterations -> write; else no report -> END;
\* else report sufficient -> write; else refine.  The writer is never
\* invoked while errors is non-empty.
C18_OrderedDecision ==
    [][/\ pc = "validate" =>
           /\ \A st \in DecisionInputs : should_refine(st) = Decision(st)
           /\ pc' = (CASE Decision(state') = "end" -> "save_artifacts"
                       [] Decision(state') = "write" -> "write"
                       [] OTHER -> "refine")
       /\ calls'.writer > calls.writer => state.errors = <<>>]_vars

\* C18 witness: validation left a sufficient report and a non-empty errors
\* list, and the run went to END without the writer.
C18_Witness ==
    /\ pc = "save_artifacts"
    /\ trace[Len(trace)] = "validate"
    /\ state.errors # <<>>
    /\ state.validation_report.is_sufficient
    /\ state.current_iteration < state.max_iterations
    /\ calls.writer = 0

\* C16 (as claimed): under any interleaving of two runs, the search queries
\* a run's documents report as used are those of its own latest research
\* pass, as they are when the run executes alone.
C16_RunsIsolated ==
    \A r \in Runs :
        /\ jobs[r].unified.written =>
              jobs[r].unified.search_queries_used = jobs[r].queries
        /\ jobs[r].comprehensive.written =>
              jobs[r].comprehensive.search_queries_used = jobs[r].queries

\* The score C21 claims for a result and a requirement: URL term, word-match
\* term and company-name term, clamped to 1.0.
ClaimedScore(r, req) ==
    LET url == CASE r.url_kind = "company" -> 30
                 [] r.url_kind = "credible" -> 20
                 [] OTHER -> 0
        hits == Cardinality({i \in 1..Len(req.text) : req.text[i] \in r.snippet})
        words == IF hits = 0 THEN 0 ELSE (hits * 40) \div Len(req.text)
        name == IF r.names_company THEN 20 ELSE 0
    IN IF url + words + name > 100 THEN 100 ELSE url + words + name

GatherReturned == call.fn = "gather_evidence" /\ result.done /\ ~result.raised

C24_EvidenceLimits ==
    GatherReturned =>
        LET reqs == Take(call.requirements, 2)
        IN /\ \A i \in 1..Len(result.searched) :
                \E k \in 1..Len(reqs) : result.searched[i] = reqs[k].id
           /\ \A k \in 1..Len(reqs) :
                Cardinality({i \in 1..Len(result.searched) :
                                result.searched[i] = reqs[k].id}) <= 4
           /\ Len(result.evidence) <= 3 * Len(result.searched)
           /\ Len(result.evidence) <= 24
           /\ \A i \in 1..Len(result.evidence) :
                \E k \in 1..Len(reqs) :
                    reqs[k].category \in result.evidence[i].tags

\* C24 witness: three requirements, six usable queries each and four results
\* per query gave 24 items.
C24_Witness ==
    /\ GatherReturned
    /\ Len(call.requirements) = 3
    /\ call.n_clean = 6
    /\ Len(call.items) = 4
    /\ Len(result.searched) = 8
    /\ Len(result.evidence) = 24

\* C22: in the findings held by the workflow state, after any number of
\* research passes, every index of every insight's supporting_evidence_idx
\* is at least 0 and less than the number of evidence items of the same
\* findings.
C22_IndicesInRange ==
    LET f == state.research_findings
    IN \A i \in 1..Len(f.mapped_insights) :
         \A k \in 1..Len(f.mapped_insights[i].supporting_evidence_idx) :
            LET idx == f.mapped_insights[i].supporting_evidence_idx[k]
            IN idx >= 0 /\ idx < Len(f.evidence)

\* C22 witness: after a refinement pass the findings hold an insight that
\* points at the last of two evidence items.
C22_Witness ==
    /\ state.current_iteration >= 1
    /\ calls.research >= 2
    /\ Len(state.research_findings.evidence) = 2
    /\ \E i \in 1..Len(state.research_findings.mapped_insights) :
         state.research_findings.mapped_insights[i].supporting_evidence_idx
            = <<0, 1>>

\* Relevance as C23 states it: the tags contain the category, or one of the
\* first three words of the text occurs in the snippet.
ClaimedRelevant(req, evidence) ==
    {j \in 0..(Len(evidence) - 1) :
        \/ req.category \in evidence[j + 1].tags
        \/ \E w \in 1..3 : w <= Len(req.text)
                             /\ req.text[w] \in evidence[j + 1].snippet}

\* C23: for each requirement there is exactly one insight when at least one
\* evidence item is relevant and none otherwise; the insight lists exactly
\* the relevant indices in increasing order and its confidence is the mean
\* of their confidences.
C23_InsightMapping ==
    (call.fn = "create_insights" /\ result.done) =>
        /\ \A i \in 1..Len(result.insights) :
             \E k \in 1..Len(call.requirements) :
                result.insights[i].requirement_id = call.requirements[k].id
        /\ \A k \in 1..Len(call.requirements) :
             LET req == call.requirements[k]
                 rel == ClaimedRelevant(req, call.evidence)
                 ins == {i \in 1..Len(result.insights) :
                            result.insights[i].requirement_id = req.id}
             IN IF rel = {} THEN ins = {}
                ELSE /\ Cardinality(ins) = 1
                     /\ \A i \in ins :
                          LET idx == result.insights[i].supporting_evidence_idx
                          IN /\ {idx[n] : n \in 1..Len(idx)} = rel
                             /\ \A n \in 1..(Len(idx) - 1) : idx[n] < idx[n + 1]
                             /\ result.insights[i].confidence * Len(idx)
                                  = SumConfidence([n \in 1..Len(idx) |->
                                        call.evidence[idx[n] + 1]])

\* C23 witness: of four evidence items, the one whose snippet holds only
\* the fourth word of the first requirement's text is left out of its
\* insight, and the second requirement has its own insight.
C23_Witness ==
    /\ call.fn = "create_insights" /\ result.done
    /\ call.requirements = <<Req1, Req2>>
    /\ call.evidence = <<Ev2, Ev4, Ev3, Ev1>>
    /\ Len(result.insights) = 2
    /\ result.insights[1].supporting_evidence_idx = <<2, 3>>
    /\ result.insights[1].confidence = 90
    /\ result.insights[2].supporting_evidence_idx = <<0, 1>>

\* The category keywords of every row of the table.
CategoryKeywords ==
    UNION {CategoryTable[i].keywords : i \in 1..Len(CategoryTable)}

\* C25: a text with an INTEGRATION keyword is categorised INTEGRATION
\* whatever other category keywords it has, a text without category keyword
\* is FEATURES, otherwise the first row of the table that matches gives the
\* category; a text with "must" is critical whatever high or low keywords
\* it has, and the priority is critical before high before low, default
\* medium.
C25_FirstMatchWins ==
    (call.fn = "classify" /\ result.done) =>
        LET t == call.text
        IN /\ t \cap CategoryTable[1].keywords # {}
                => result.category = "integration"
           /\ t \cap CategoryKeywords = {} => result.category = "features"
           /\ \A i \in 1..Len(CategoryTable) :
                (/\ t \cap CategoryTable[i].keywords # {}
                 /\ \A j \in 1..(i - 1) : t \cap CategoryTable[j].keywords = {})
                    => result.category = CategoryTable[i].category
           /\ "must" \in t => result.priority = "critical"
           /\ result.priority =
                CASE t \cap CriticalKeywords # {} -> "critical"
                  [] t \cap CriticalKeywords = {} /\ t \cap HighKeywords # {}
                        -> "high"
                  [] t \cap (CriticalKeywords \cup HighKeywords) = {}
                        /\ t \cap LowKeywords # {} -> "low"
                  [] OTHER -> "medium"

\* C25 witness: a text with keywords of four categories, INTEGRATION among
\* them, and with "must", "should" and "optional" came out INTEGRATION and
\* critical.
C25_Witness ==
    /\ call.fn = "classify" /\ result.done
    /\ {"api", "support", "time", "users", "must", "should", "optional"}
            \subseteq call.text
    /\ result.category = "integration"
    /\ result.priority = "critical"

\* A run has been started by run().
RunStarted == pc \notin {"start", "exit", "call", "concurrent", "chunk"}

\* C26: in every state of a run, 0 <= current_iteration <= max_iterations,
\* the research stage has been invoked at most current_iteration + 1 times
\* and exactly current_iteration + 1 times once the run has ended; no step
\* decreases current_iteration.
C26_IterationBounds ==
    [][/\ state'.current_iteration >= state.current_iteration
       /\ RunStarted' =>
            /\ state'.max_iterations >= 0
            /\ state'.current_iteration >= 0
            /\ state'.current_iteration <= state'.max_iterations
            /\ calls'.research <= state'.current_iteration + 1
            /\ pc' = "returned" =>
                    calls'.research = state'.current_iteration + 1]_vars

\* C26 witness: a run with max_iterations = 2 ended after two refinements
\* and three research invocations.
C26_Witness ==
    /\ pc = "returned"
    /\ state.max_iterations = 2
    /\ state.current_iteration = 2
    /\ calls.research = 3

\* The messages the three saving nodes record when saving fails.
SavingFaultMessages ==
    {"Research package saving error", "Unified document generation error",
     "Comprehensive result generation error"}

\* C27 (as claimed): at the end of every run errors is empty if and only if
\* a bid outline was produced.
C27_ErrorsIffOutline ==
    pc = "returned" => (state.errors = <<>> <=> state.bid_outline.present)

\* C27 (amended): a run that ends with empty errors has produced a bid
\* outline, and a run that ends without a bid outline has errors; a run
\* that ends with a bid outline and errors has only errors of the saving
\* nodes, which ran after the outline was written.
C27_ErrorsAfterOutlineAreSavingFaults ==
    pc = "returned" =>
        /\ state.errors = <<>> => state.bid_outline.present
        /\ ~state.bid_outline.present => state.errors # <<>>
        /\ state.bid_outline.present =>
             \A i \in 1..Len(state.errors) :
                state.errors[i] \in SavingFaultMessages

\* C27 witness: a run ended with a written bid outline and with the error
\* of a failed package save.
C27_Witness ==
    /\ pc = "returned"
    /\ state.bid_outline.present
    /\ calls.writer = 1
    /\ artifacts["outline"] = 1
    /\ state.errors = <<"Research package saving error">>

\* C28 (as claimed): for any findings the ResearchFindings model accepts,
\* also with insights that name no extracted requirement, the fallback
\* validation does not raise and its score lies in [0, 1].
C28_FallbackScoreInRange ==
    (/\ call.fn = "validator_process"
     /\ result.done
     /\ call.reply.kind \in {"empty", "bad_json"})
    => /\ ~result.raised
       /\ result.report.coverage_score >= 0
       /\ result.report.coverage_score <= 100

C30_ChunkingTerminates ==
    /\ [][(/\ chunker.pc = "loop"
            /\ chunker.start < chunker.text.len
            /\ chunker' # chunker)
            => chunker'.start > chunker.start]_vars
    /\ <>(chunker.pc = "returned")

====
